---- MODULE Spec2Model ----
(***************************************************************************)
(* A model of the Redshift -> Databricks SQL translator                    *)
(* (src/src/sql_translator/translator.py): the SQLTranslator object, its   *)
(* CTE graph and synthetic-name counter, the graph builder, the alias      *)
(* hoister, the topological serializer, the "+" concatenation rewrite and  *)
(* the translate() driver.                                                 *)
(*                                                                         *)
(* The syntax tree comes from the sqlglot library, which is not part of    *)
(* the repository.  A tree node is modelled by the interface the code      *)
(* uses: its kind (the class isinstance tests), its text (str(node),       *)
(* str(node.alias)), and its children (cte.expression, alias.expression,   *)
(* with.expressions, the arguments walk() descends into).  walk() is the   *)
(* library's traversal: breadth first, starting with the node it is        *)
(* called on.                                                              *)
(***************************************************************************)
EXTENDS Integers, Sequences, FiniteSets, TLC

VARIABLES
    cte_counter,    \* SQLTranslator.cte_counter
    cte_graph,      \* SQLTranslator.cte_graph: insertion-ordered dict name -> CTENode
    pc,             \* where the running call stands
    caller,         \* which entry point started the running call
    sql_exp,        \* the argument of the running call
    stack,          \* the Python call stack of the recursive function that runs
    visited,        \* _sort_ctes_topologically: visited
    sorted_ctes,    \* _sort_ctes_topologically: sorted_ctes
    cursor,         \* _sort_ctes_topologically: position of the loop of line 248
    result,         \* what the last call returned or raised
    calls           \* number of calls made on this translator

vars == <<cte_counter, cte_graph, pc, caller, sql_exp, stack, visited,
          sorted_ctes, cursor, result, calls>>

(***************************************************************************)
(* Bounds                                                                  *)
(***************************************************************************)
MaxCtes == 2          \* CTE definitions in one WITH construct
MaxItems == 2         \* projections in one selection
MaxCalls == 2         \* calls made on one translator
RecursionLimit == 4   \* depth at which Python raises RecursionError
NumNames == 2         \* names a serializer input graph is drawn from
MaxLen == 6           \* characters of SQL text given to the "+" rewrite

(***************************************************************************)
(* Syntax trees                                                            *)
(***************************************************************************)
Node(kind, name, kids) == [kind |-> kind, name |-> name, kids |-> kids]

Table(name) == Node("Table", name, <<>>)
Column(name) == Node("Column", name, <<>>)
Star == Node("Star", "*", <<>>)
Alias(name, e) == Node("Alias", name, <<e>>)
CTE(name, body) == Node("CTE", name, <<body>>)
With(ctes) == Node("With", "", ctes)
From(src) == Node("From", "", <<src>>)
Subquery(q) == Node("Subquery", "", <<q>>)
Drop(name) == Node("Drop", name, <<>>)

\* A selection: its projections, then its WITH construct (none or one), then
\* its source.
Select(items, withs, src) == Node("Select", "", items \o withs \o <<From(src)>>)

\* str(node) of a leaf node
Str(n) == n.name

RECURSIVE Bfs(_)
Bfs(queue) ==
    IF queue = <<>> THEN <<>>
    ELSE <<Head(queue)>> \o Bfs(Tail(queue) \o Head(queue).kids)

\* node.walk(): every node of the subtree, breadth first, the node itself first
Walk(n) == Bfs(<<n>>)

Range(s) == {s[i] : i \in 1..Len(s)}

RECURSIVE SelectSeqKind(_, _)
SelectSeqKind(s, kind) ==
    IF s = <<>> THEN <<>>
    ELSE IF Head(s).kind = kind
         THEN <<Head(s)>> \o SelectSeqKind(Tail(s), kind)
         ELSE SelectSeqKind(Tail(s), kind)

SeqsUpTo(S, lo, hi) == UNION {[1..n -> S] : n \in lo..hi}

(***************************************************************************)
(* The CTE graph: a Python dict, which keeps insertion order and keeps a   *)
(* key's position when its value is replaced.                              *)
(***************************************************************************)
EmptyGraph == [keys |-> <<>>, node |-> [k \in {} |-> 0]]

Keys(g) == Range(g.keys)

GraphPut(g, k, v) ==
    [keys |-> IF k \in Keys(g) THEN g.keys ELSE Append(g.keys, k),
     node |-> [x \in Keys(g) \cup {k} |-> IF x = k THEN v ELSE g.node[x]]]

CTENode(name, sql, references, referenced_by, aliases) ==
    [name |-> name, sql |-> sql, references |-> references,
     referenced_by |-> referenced_by, aliases |-> aliases]

\* f"cte_alias_{n}"
CteAliasName(n) == "cte_alias_" \o ToString(n)

\* _generate_cte_name: the counter after the call and the name returned
generate_cte_name(counter) ==
    [counter |-> counter + 1, name |-> CteAliasName(counter + 1)]

(***************************************************************************)
(* CTE Graph Builder: _build_cte_graph                                     *)
(***************************************************************************)
\* lines 39-41: the table references of a CTE body that name a CTE already
\* in the graph
References(walk, g) ==
    {Str(n) : n \in {m \in Range(walk) : m.kind = "Table" /\ Str(m) \in Keys(g)}}

\* lines 42-43: alias -> str(expression); a later alias of the same name wins
AliasTexts(walk) ==
    LET idx(a) == {i \in 1..Len(walk) : walk[i].kind = "Alias" /\ Str(walk[i]) = a}
        last(a) == CHOOSE i \in idx(a) : \A j \in idx(a) : j <= i
    IN [a \in {Str(n) : n \in {m \in Range(walk) : m.kind = "Alias"}}
            |-> Str(walk[last(a)].kids[1])]

\* lines 31-51: one node per CTE of the WITH construct, in declaration order
RECURSIVE RegisterCtes(_, _)
RegisterCtes(g, ctes) ==
    IF ctes = <<>> THEN g
    ELSE LET cte == Head(ctes)
             cte_name == Str(cte)
             cte_sql == cte.kids[1]
             walk == Walk(cte_sql)
         IN RegisterCtes(
                GraphPut(g, cte_name,
                         CTENode(cte_name, cte_sql, References(walk, g), {},
                                 AliasTexts(walk))),
                Tail(ctes))

\* lines 54-57: the back edges of every node of the graph
UpdateReferencedBy(g) ==
    [g EXCEPT !.node =
        [k \in Keys(g) |->
            [g.node[k] EXCEPT !.referenced_by =
                @ \cup {n \in Keys(g) : k \in g.node[n].references}]]]

\* lines 30-57: what one call does to the graph before it descends
build_enter(g, node) ==
    IF node.kind = "With"
    THEN UpdateReferencedBy(RegisterCtes(g, node.kids))
    ELSE g

\* the descent with the node of the call itself left out
NestedSelectionsBelow(node) == SelectSeqKind(Tail(Walk(node)), "Select")

\* lines 60-61: the nodes the call recurses into, in walk order
NestedSelections(node) == SelectSeqKind(Walk(node), "Select")

Frame(node) == [node |-> node, todo |-> NestedSelections(node)]

Top == stack[Len(stack)]

Outcome(kind, value) == [kind |-> kind, value |-> value]

\* line 62: the recursive call on the next nested selection
BuildDescend ==
    /\ pc = "build"
    /\ stack # <<>>
    /\ Top.todo # <<>>
    /\ Len(stack) < RecursionLimit
    /\ LET child == Head(Top.todo)
       IN /\ stack' = Append([stack EXCEPT ![Len(stack)].todo = Tail(@)],
                             Frame(child))
          /\ cte_graph' = build_enter(cte_graph, child)
    /\ UNCHANGED <<cte_counter, pc, caller, sql_exp, visited, sorted_ctes,
                   cursor, result, calls>>

\* line 62 at the interpreter's recursion limit: RecursionError unwinds every
\* frame; neither _build_cte_graph nor translate catches it
BuildOverflow ==
    /\ pc = "build"
    /\ stack # <<>>
    /\ Top.todo # <<>>
    /\ Len(stack) = RecursionLimit
    /\ stack' = <<>>
    /\ pc' = "idle"
    /\ result' = Outcome("RecursionError", Star)
    /\ sql_exp' = Star
    /\ UNCHANGED <<cte_counter, cte_graph, caller, visited, sorted_ctes,
                   cursor, calls>>

\* the loop of lines 60-62 is exhausted: the call returns
BuildReturn ==
    /\ pc = "build"
    /\ stack # <<>>
    /\ Top.todo = <<>>
    /\ stack' = SubSeq(stack, 1, Len(stack) - 1)
    /\ IF Len(stack) > 1
       THEN UNCHANGED <<pc, result, sql_exp>>
       ELSE IF caller = "translate"
            THEN pc' = "transform" /\ UNCHANGED <<result, sql_exp>>
            ELSE pc' = "idle" /\ result' = Outcome("None", Star)
                   /\ sql_exp' = Star
    /\ UNCHANGED <<cte_counter, cte_graph, caller, visited, sorted_ctes,
                   cursor, calls>>

(***************************************************************************)
(* Alias Hoister: _handle_column_aliases                                   *)
(***************************************************************************)
\* lines 76-80: the columns whose text is an alias met earlier in the walk
RECURSIVE AliasReferences(_, _)
AliasReferences(walk, aliases) ==
    IF walk = <<>> THEN {}
    ELSE LET node == Head(walk)
         IN IF node.kind = "Alias"
            THEN AliasReferences(Tail(walk), aliases \cup {Str(node)})
            ELSE IF node.kind = "Column" /\ Str(node) \in aliases
                 THEN {Str(node)} \cup AliasReferences(Tail(walk), aliases)
                 ELSE AliasReferences(Tail(walk), aliases)

\* lines 77-78: alias -> the Alias node; a later alias of the same name wins
AliasNodes(walk) ==
    LET idx(a) == {i \in 1..Len(walk) : walk[i].kind = "Alias" /\ Str(walk[i]) = a}
        last(a) == CHOOSE i \in idx(a) : \A j \in idx(a) : j <= i
    IN [a \in {Str(n) : n \in {m \in Range(walk) : m.kind = "Alias"}}
            |-> walk[last(a)]]

\* line 96: exp.select("*").from_(exp.Table(cte_name))
WildcardOver(cte_name) == Select(<<Star>>, <<>>, Table(cte_name))

\* lines 64-98: the counter and graph after the call and the value returned
handle_column_aliases(counter, g, e) ==
    IF e.kind # "Select"
    THEN [counter |-> counter, graph |-> g, ret |-> e]
    ELSE IF AliasReferences(Walk(e), {}) # {}
         THEN LET m == generate_cte_name(counter)
              IN [counter |-> m.counter,
                  graph |-> GraphPut(g, m.name,
                                CTENode(m.name, e, {}, {}, AliasNodes(Walk(e)))),
                  ret |-> WildcardOver(m.name)]
         ELSE [counter |-> counter, graph |-> g, ret |-> e]

(***************************************************************************)
(* translate: the requests one SQLTranslator serves                        *)
(***************************************************************************)
\* a value is text (str) or a syntax tree node
IsText(x) == x.kind = "str"

\* lines 228-232.  _handle_column_aliases returns a tree; _handle_ignore_nulls
\* hands its argument to re.sub (line 119), which raises TypeError for
\* anything but text, and nothing on the way up to translate catches it.
apply_transformations(counter, g, e) ==
    LET h == handle_column_aliases(counter, g, e)
    IN [counter |-> h.counter, graph |-> h.graph, ret |-> h.ret,
        raised |-> IF IsText(h.ret) THEN "" ELSE "TypeError"]

\* The statements parse_one returns: a selection with an optional WITH
\* construct, the same selection as a subquery of an outer selection, and a
\* statement that holds no selection.  The root is never a With node: the
\* parser hangs a WITH construct under the statement it precedes.
Items == {Column("x"), Alias("x", Column("y")), Alias("y", Column("x"))}
ItemLists == SeqsUpTo(Items, 1, MaxItems)
DeclNames == {"first", "second", "cte_alias_1"}
SourceNames == {"first", "t"}
Decls == {CTE(n, Select(<<Star>>, <<>>, Table(s))) : n \in DeclNames, s \in SourceNames}
DeclLists == SeqsUpTo(Decls, 0, MaxCtes)

Flat(decls, items) ==
    IF decls = <<>>
    THEN Select(items, <<>>, Table("t"))
    ELSE Select(items, <<With(decls)>>, Table(Str(decls[1])))

Nested(decls, items) == Select(<<Star>>, <<>>, Subquery(Flat(decls, items)))

ParsedQueries ==
    {Flat(d, i) : d \in DeclLists, i \in ItemLists}
        \cup {Nested(d, i) : d \in DeclLists, i \in ItemLists}
        \cup {Drop("t")}

NoOutcome == Outcome("none", Star)

\* lines 19-21: SQLTranslator()
Init ==
    /\ cte_counter = 0
    /\ cte_graph = EmptyGraph
    /\ pc = "idle"
    /\ caller = "none"
    /\ sql_exp = Star
    /\ stack = <<>>
    /\ visited = {}
    /\ sorted_ctes = <<>>
    /\ cursor = 1
    /\ result = NoOutcome
    /\ calls = 0

\* lines 255-257: translate(sql) parses and calls _build_cte_graph on the root
TranslateCall ==
    /\ pc = "idle"
    /\ calls < MaxCalls
    /\ \E q \in ParsedQueries :
        /\ sql_exp' = q
        /\ stack' = <<Frame(q)>>
        /\ cte_graph' = build_enter(cte_graph, q)
    /\ calls' = calls + 1
    /\ caller' = "translate"
    /\ pc' = "build"
    /\ result' = NoOutcome
    /\ UNCHANGED <<cte_counter, visited, sorted_ctes, cursor>>

\* line 259: _apply_transformations; on its exception translate ends
TranslateTransform ==
    /\ pc = "transform"
    /\ LET t == apply_transformations(cte_counter, cte_graph, sql_exp)
       IN /\ cte_counter' = t.counter
          /\ cte_graph' = t.graph
          /\ IF t.raised = ""
             THEN pc' = "sort" /\ sql_exp' = t.ret /\ UNCHANGED result
             ELSE pc' = "idle" /\ result' = Outcome(t.raised, Star)
                    /\ sql_exp' = Star
    /\ UNCHANGED <<caller, stack, visited, sorted_ctes, cursor, calls>>

Next ==
    \/ TranslateCall
    \/ BuildDescend
    \/ BuildOverflow
    \/ BuildReturn
    \/ TranslateTransform

Spec == Init /\ [][Next]_vars

(***************************************************************************)
(* The builder and the hoister called on their own, as the unit of each    *)
(* is specified: on a WITH construct, on a selection, on a statement       *)
(* without selections.                                                     *)
(***************************************************************************)
UnitNodes ==
    {With(d) : d \in SeqsUpTo(Decls, 1, MaxCtes)}
        \cup {Select(i, <<>>, Table("t")) : i \in ItemLists}
        \cup {Drop("t")}

\* translator._build_cte_graph(node)
UnitBuildCall ==
    /\ pc = "idle"
    /\ calls < MaxCalls
    /\ \E n \in UnitNodes :
        /\ sql_exp' = n
        /\ stack' = <<Frame(n)>>
        /\ cte_graph' = build_enter(cte_graph, n)
    /\ calls' = calls + 1
    /\ caller' = "unit"
    /\ pc' = "build"
    /\ result' = NoOutcome
    /\ UNCHANGED <<cte_counter, visited, sorted_ctes, cursor>>

\* translator._handle_column_aliases(node): the call
UnitHoistCall ==
    /\ pc = "idle"
    /\ calls < MaxCalls
    /\ \E n \in UnitNodes : sql_exp' = n
    /\ calls' = calls + 1
    /\ caller' = "unit"
    /\ pc' = "hoist"
    /\ result' = NoOutcome
    /\ UNCHANGED <<cte_counter, cte_graph, stack, visited, sorted_ctes, cursor>>

\* lines 64-98: the body of _handle_column_aliases
HoistRun ==
    /\ pc = "hoist"
    /\ LET h == handle_column_aliases(cte_counter, cte_graph, sql_exp)
       IN /\ cte_counter' = h.counter
          /\ cte_graph' = h.graph
          /\ result' = Outcome("returned", h.ret)
    /\ pc' = "idle"
    /\ sql_exp' = Star
    /\ UNCHANGED <<caller, stack, visited, sorted_ctes, cursor, calls>>

NextUnits ==
    \/ UnitBuildCall
    \/ BuildDescend
    \/ BuildOverflow
    \/ BuildReturn
    \/ UnitHoistCall
    \/ HoistRun

SpecUnits == Init /\ [][NextUnits]_vars

(***************************************************************************)
(* Topological Serializer: _sort_ctes_topologically                        *)
(***************************************************************************)
NamePool == <<"a", "b", "c", "d", "e", "f">>
Names == {NamePool[i] : i \in 1..NumNames}

\* The graphs the serializer is given: any non-empty set of keys (listed in
\* pool order: the serializer reads names only through equality, so every
\* insertion order is a renaming of this one), any references among the
\* names, a key or not, and the back edges the builder derives from them.
SortGraph(K, refs) ==
    [keys |-> SelectSeq(NamePool, LAMBDA n : n \in K),
     node |-> [k \in K |->
                  CTENode(k, Star, refs[k], {n \in K : k \in refs[n]},
                          [a \in {} |-> Star])]]

SortGraphs ==
    UNION {{SortGraph(K, refs) : refs \in [K -> SUBSET Names]} :
              K \in (SUBSET Names) \ {{}}}

InitSort ==
    /\ cte_counter = 0
    /\ cte_graph \in SortGraphs
    /\ pc = "idle"
    /\ caller = "none"
    /\ sql_exp = Star
    /\ stack = <<>>
    /\ visited = {}
    /\ sorted_ctes = <<>>
    /\ cursor = 1
    /\ result = NoOutcome
    /\ calls = 0

\* line 240
already_visited(v, cte_name) == cte_name \in v

\* the visit following the back edges instead
visit_referenced_by(g, cte_name) == g.node[cte_name].referenced_by

\* line 243: the names the visit of cte_name iterates over
visit_refs(g, cte_name) == g.node[cte_name].references

\* the visit without the membership test
ref_unchecked(g, ref) == TRUE

\* line 244
ref_in_graph(g, ref) == ref \in Keys(g)

\* lines 239-243: visit(cte_name) up to its loop.  A visited name returns at
\* once; else the name is marked and a frame iterates over its references
\* (self.cte_graph[cte_name] raises KeyError for a name that is no key).
Visit(cte_name, below) ==
    IF already_visited(visited, cte_name)
    THEN /\ stack' = below
         /\ UNCHANGED <<visited, pc, result>>
    ELSE /\ visited' = visited \cup {cte_name}
         /\ IF cte_name \in Keys(cte_graph)
            THEN /\ stack' = Append(below,
                        [node |-> cte_name, todo |-> visit_refs(cte_graph, cte_name)])
                 /\ UNCHANGED <<pc, result>>
            ELSE /\ stack' = <<>>
                 /\ pc' = "idle"
                 /\ result' = Outcome("KeyError", <<>>)

\* lines 236-237: the call
SortCall ==
    /\ pc = "idle"
    /\ calls = 0
    /\ calls' = 1
    /\ caller' = "unit"
    /\ pc' = "sort"
    /\ visited' = {}
    /\ sorted_ctes' = <<>>
    /\ cursor' = 1
    /\ stack' = <<>>
    /\ result' = NoOutcome
    /\ UNCHANGED <<cte_counter, cte_graph, sql_exp>>

\* lines 248-249: the next key of the graph, in insertion order
SortVisitKey ==
    /\ pc = "sort"
    /\ stack = <<>>
    /\ cursor <= Len(cte_graph.keys)
    /\ cursor' = cursor + 1
    /\ Visit(cte_graph.keys[cursor], stack)
    /\ UNCHANGED <<cte_counter, cte_graph, caller, sql_exp, sorted_ctes, calls>>

\* lines 243-245: the next reference of the running visit, in the set's
\* iteration order, which is any order
SortVisitRef ==
    /\ pc = "sort"
    /\ stack # <<>>
    /\ \E ref \in Top.todo :
        LET below == [stack EXCEPT ![Len(stack)].todo = @ \ {ref}]
        IN IF ref_in_graph(cte_graph, ref)
           THEN Visit(ref, below)
           ELSE stack' = below /\ UNCHANGED <<visited, pc, result>>
    /\ UNCHANGED <<cte_counter, cte_graph, caller, sql_exp, sorted_ctes,
                   cursor, calls>>

\* line 246: the references are done; the name is appended, the visit returns
SortAppend ==
    /\ pc = "sort"
    /\ stack # <<>>
    /\ Top.todo = {}
    /\ sorted_ctes' = Append(sorted_ctes, Top.node)
    /\ stack' = SubSeq(stack, 1, Len(stack) - 1)
    /\ UNCHANGED <<cte_counter, cte_graph, pc, caller, sql_exp, visited,
                   cursor, result, calls>>

\* line 250
SortReturn ==
    /\ pc = "sort"
    /\ stack = <<>>
    /\ cursor > Len(cte_graph.keys)
    /\ pc' = "idle"
    /\ result' = Outcome("list", sorted_ctes)
    /\ UNCHANGED <<cte_counter, cte_graph, caller, sql_exp, stack, visited,
                   sorted_ctes, cursor, calls>>

NextSort ==
    \/ SortCall
    \/ SortVisitKey
    \/ SortVisitRef
    \/ SortAppend
    \/ SortReturn

SpecSort == InitSort /\ [][NextSort]_vars

(***************************************************************************)
(* Properties of the serializer (under SpecSort)                           *)
(***************************************************************************)
\* the references of n that are keys of the graph
Edges(g, n) == g.node[n].references \cap Keys(g)

RECURSIVE Closure(_, _)
Closure(g, S) ==
    LET T == S \cup UNION {Edges(g, x) : x \in S}
    IN IF T = S THEN S ELSE Closure(g, T)

Cyclic(g) == \E n \in Keys(g) : n \in Closure(g, Edges(g, n))

SortDone == pc = "idle" /\ calls = 1

KeyPos(g, n) == CHOOSE i \in 1..Len(g.keys) : g.keys[i] = n

\* C1: for an acyclic graph the returned sequence holds every node and every
\* reference of it that is a key, and the node stands strictly later than
\* each such reference.
C1_ReferencesFirst ==
    (SortDone /\ ~Cyclic(cte_graph)) =>
        /\ result.kind = "list"
        /\ \A n \in Keys(cte_graph) : \A r \in Edges(cte_graph, n) :
            /\ \E i \in 1..Len(result.value) : result.value[i] = n
            /\ \E j \in 1..Len(result.value) : result.value[j] = r
            /\ \A i, j \in 1..Len(result.value) :
                (result.value[i] = n /\ result.value[j] = r) => j < i

\* an acyclic graph in which a node was inserted before one it references, so
\* that the insertion order is not an answer, has been sorted
C1_Witness ==
    /\ SortDone
    /\ result.kind = "list"
    /\ ~Cyclic(cte_graph)
    /\ \E n \in Keys(cte_graph) : \E r \in Edges(cte_graph, n) :
        KeyPos(cte_graph, n) < KeyPos(cte_graph, r)

\* C8: on a graph whose reference relation has a cycle the serializer ends
\* with a cycle-detected error and returns no ordering.
C8_CycleIsAnError ==
    (SortDone /\ Cyclic(cte_graph)) => result.kind = "CycleError"

\* C10: for every graph the serializer returns, and what it returns is a
\* permutation of the graph's keys.
C10_PermutationOfKeys ==
    SortDone =>
        /\ result.kind = "list"
        /\ Len(result.value) = Cardinality(Keys(cte_graph))
        /\ Range(result.value) = Keys(cte_graph)

\* a graph with a cycle and a reference to a name that is no key has been
\* sorted
C10_Witness ==
    /\ SortDone
    /\ result.kind = "list"
    /\ Cyclic(cte_graph)
    /\ \E n \in Keys(cte_graph) :
        cte_graph.node[n].references \ Keys(cte_graph) # {}

(***************************************************************************)
(* Dialect Function Rewriter: _handle_string_concat.  Text is a sequence   *)
(* of characters.                                                          *)
(***************************************************************************)
Letters ==
    {"a", "b", "c", "d", "e", "f", "g", "h", "i", "j", "k", "l", "m",
     "n", "o", "p", "q", "r", "s", "t", "u", "v", "w", "x", "y", "z",
     "A", "B", "C", "D", "E", "F", "G", "H", "I", "J", "K", "L", "M",
     "N", "O", "P", "Q", "R", "S", "T", "U", "V", "W", "X", "Y", "Z"}
Digits == {"0", "1", "2", "3", "4", "5", "6", "7", "8", "9"}

\* [a-zA-Z_] and [a-zA-Z0-9_] of lines 160-161, and \s
IsIdentStart(c) == c \in Letters \cup {"_"}
IsIdentChar(c) == c \in Letters \cup Digits \cup {"_"}
IsSpace(c) == c \in {" ", "\t", "\n", "\r"}

\* text.find(c, from): the first position at or after from that holds c, or 0
RECURSIVE Find(_, _, _)
Find(text, c, from) ==
    IF from > Len(text) THEN 0
    ELSE IF text[from] = c THEN from
    ELSE Find(text, c, from + 1)

\* [a-zA-Z0-9_]* from p, greedy: the position after it
RECURSIVE IdentEnd(_, _)
IdentEnd(text, p) ==
    IF p <= Len(text) /\ IsIdentChar(text[p]) THEN IdentEnd(text, p + 1) ELSE p

\* \s* from p, greedy: the position after it
RECURSIVE SkipSpaces(_, _)
SkipSpaces(text, p) ==
    IF p <= Len(text) /\ IsSpace(text[p]) THEN SkipSpaces(text, p + 1) ELSE p

\* (?:[a-zA-Z_][a-zA-Z0-9_]*|'[^']*') at p: the position after the operand,
\* or 0 when none starts at p.  The alternatives start with different
\* characters, and a shorter identifier is followed by an identifier
\* character, which nothing after an operand accepts: the greedy match is
\* the only one the pattern can use.
OperandEnd(text, p) ==
    IF p > Len(text) THEN 0
    ELSE IF IsIdentStart(text[p]) THEN IdentEnd(text, p + 1)
    ELSE IF text[p] = "'"
         THEN LET q == Find(text, "'", p + 1) IN IF q = 0 THEN 0 ELSE q + 1
         ELSE 0

\* the repetitions of (?:\+\s*operand) the pattern takes.  The quantifier of
\* line 161 is +?, the lazy one, and it ends the pattern: the match is
\* complete after one repetition and stops there.
LazyRepetitions == 1

\* lines 159-162: the pattern at p: the position after the match, or 0
RECURSIVE PlusOperands(_, _, _)
PlusOperands(text, p, n) ==
    IF n = 0 THEN p
    ELSE IF p <= Len(text) /\ text[p] = "+"
         THEN LET e == OperandEnd(text, SkipSpaces(text, p + 1))
              IN IF e = 0 THEN 0 ELSE PlusOperands(text, e, n - 1)
         ELSE 0

MatchAt(text, p) ==
    LET e == OperandEnd(text, p)
    IN IF e = 0 THEN 0
       ELSE PlusOperands(text, SkipSpaces(text, e), LazyRepetitions)

\* lines 142-155: the parts the handler collects from current_pos on.  After
\* a quoted part current_pos is set past the closing quote and then
\* advanced once more by line 155.
RECURSIVE HandlerParts(_, _)
HandlerParts(text, current_pos) ==
    IF current_pos > Len(text) THEN <<>>
    ELSE IF text[current_pos] = "'"
         THEN LET end_quote == Find(text, "'", current_pos + 1)
              IN IF end_quote # 0
                 THEN SubSeq(text, current_pos, end_quote)
                          \o HandlerParts(text, end_quote + 2)
                 ELSE SubSeq(text, current_pos, Len(text))
    ELSE IF text[current_pos] = "+"
         THEN <<",">> \o HandlerParts(text, current_pos + 1)
    ELSE <<text[current_pos]>> \o HandlerParts(text, current_pos + 1)

\* str.strip()
RECURSIVE LStrip(_)
LStrip(text) ==
    IF text # <<>> /\ IsSpace(Head(text)) THEN LStrip(Tail(text)) ELSE text

RECURSIVE RStrip(_)
RStrip(text) ==
    IF text # <<>> /\ IsSpace(text[Len(text)])
    THEN RStrip(SubSeq(text, 1, Len(text) - 1))
    ELSE text

Strip(text) == LStrip(RStrip(text))

ConcatOpen == <<"c", "o", "n", "c", "a", "t", "(">>

\* lines 137-157: concat_handler(match)
concat_handler(text) == ConcatOpen \o Strip(HandlerParts(text, 1)) \o <<")">>

\* line 163: re.sub: the leftmost match, replaced, then on from its end
RECURSIVE ReSub(_, _)
ReSub(text, p) ==
    IF p > Len(text) THEN <<>>
    ELSE LET e == MatchAt(text, p)
         IN IF e = 0
            THEN <<text[p]>> \o ReSub(text, p + 1)
            ELSE concat_handler(SubSeq(text, p, e - 1)) \o ReSub(text, e)

\* lines 135-163
handle_string_concat(sql) == ReSub(sql, 1)

Chars == {"a", "'", "+", " "}
Texts == SeqsUpTo(Chars, 0, MaxLen)

InitConcat ==
    /\ cte_counter = 0
    /\ cte_graph = EmptyGraph
    /\ pc = "idle"
    /\ caller = "none"
    /\ sql_exp \in Texts
    /\ stack = <<>>
    /\ visited = {}
    /\ sorted_ctes = <<>>
    /\ cursor = 1
    /\ result = NoOutcome
    /\ calls = 0

\* translator._handle_string_concat(sql)
ConcatCall ==
    /\ pc = "idle"
    /\ calls = 0
    /\ calls' = 1
    /\ caller' = "unit"
    /\ result' = Outcome("str", handle_string_concat(sql_exp))
    /\ UNCHANGED <<cte_counter, cte_graph, pc, sql_exp, stack, visited,
                   sorted_ctes, cursor>>

NextConcat == ConcatCall

SpecConcat == InitConcat /\ [][NextConcat]_vars

(***************************************************************************)
(* Properties of the "+" rewrite (under SpecConcat)                        *)
(***************************************************************************)
\* the operands of a text that is, from p to its end, operands joined by "+"
\* with optional spaces around it (quotes read first); <<>> when it is not
RECURSIVE ChainFrom(_, _)
ChainFrom(text, p) ==
    LET e == OperandEnd(text, p)
    IN IF e = 0 THEN <<>>
       ELSE IF e > Len(text) THEN <<SubSeq(text, p, e - 1)>>
       ELSE LET plus == SkipSpaces(text, e)
            IN IF plus <= Len(text) /\ text[plus] = "+"
               THEN LET rest == ChainFrom(text, SkipSpaces(text, plus + 1))
                    IN IF rest = <<>> THEN <<>>
                       ELSE <<SubSeq(text, p, e - 1)>> \o rest
               ELSE <<>>

RECURSIVE JoinComma(_)
JoinComma(ops) ==
    IF Len(ops) = 1 THEN ops[1]
    ELSE ops[1] \o <<",">> \o JoinComma(Tail(ops))

NoSpaces(text) == SelectSeq(text, LAMBDA c : ~IsSpace(c))

IsLiteral(text) ==
    /\ Len(text) >= 2
    /\ text[1] = "'"
    /\ Find(text, "'", 2) = Len(text)

\* C7: a chain of two or more operands joined by "+" is rewritten to one
\* concat call over all its operands in their order (spacing aside), and a
\* text that is one string literal is returned as it is.
C7_OneConcatOverTheChain ==
    calls = 1 =>
        /\ Len(ChainFrom(sql_exp, 1)) >= 2 =>
            NoSpaces(result.value) =
                NoSpaces(ConcatOpen \o JoinComma(ChainFrom(sql_exp, 1)) \o <<")">>)
        /\ IsLiteral(sql_exp) => result.value = sql_exp

(***************************************************************************)
(* Properties of translate and of the builder (under Spec)                 *)
(***************************************************************************)
\* WITH second AS (SELECT * FROM first), first AS (SELECT * FROM t)
\* SELECT x FROM second
ReverseOrderQuery ==
    Flat(<<CTE("second", Select(<<Star>>, <<>>, Table("first"))),
           CTE("first", Select(<<Star>>, <<>>, Table("t")))>>,
         <<Column("x")>>)

\* the names of the CTE definitions anywhere in a tree
CteNames(q) == {Str(n) : n \in {m \in Range(Walk(q)) : m.kind = "CTE"}}

TranslateEnds == caller = "translate" /\ pc # "idle" /\ pc' = "idle"

BuildEnds == caller = "translate" /\ pc = "build" /\ pc' # "build"

\* C2: translate of the query that declares second (reading first) before
\* first ends with the rendered text of a query whose CTE preamble lists
\* first before second.
C2_ReverseOrderReassembled ==
    [][(TranslateEnds /\ sql_exp = ReverseOrderQuery) =>
        /\ result'.kind = "sql"
        /\ \E i, j \in 1..Len(result'.value) :
            i < j /\ result'.value[i] = "first" /\ result'.value[j] = "second"]_vars

\* C4: whenever a translate call can start, the CTE graph is empty and the
\* synthetic-name counter is 0.
C4_FreshStateAtEveryCall ==
    pc = "idle" => (cte_graph = EmptyGraph /\ cte_counter = 0)

\* a translate call has run through the builder into the transformations and
\* ended, and the next call on the same translator can start
C4_Witness ==
    /\ pc = "idle"
    /\ caller = "translate"
    /\ calls >= 1
    /\ calls < MaxCalls
    /\ result.kind = "TypeError"

\* C5: when _build_cte_graph has run on a parsed query, the keys of the graph
\* are the names of the CTE definitions anywhere in the query.
C5_EveryCteRegistered ==
    [][BuildEnds => Keys(cte_graph') = CteNames(sql_exp)]_vars

\* C9: a call of _build_cte_graph never calls itself on the node it was
\* invoked with, and the build never ends in a RecursionError.
C9_NoCallOnTheSameNode ==
    /\ pc = "build" =>
        \A i \in 2..Len(stack) : stack[i].node # stack[i - 1].node
    /\ result.kind # "RecursionError"

(***************************************************************************)
(* Properties of the hoister (under SpecUnits)                             *)
(***************************************************************************)
\* some alias defined in the selection is the text of a column of it
SelfReferencing(e) ==
    /\ e.kind = "Select"
    /\ \E a \in Range(Walk(e)) : \E c \in Range(Walk(e)) :
        a.kind = "Alias" /\ c.kind = "Column" /\ Str(c) = Str(a)

\* C3: a name minted by a call of _handle_column_aliases is no key of the
\* graph the call found (the user-declared names and the names minted
\* before), so its node replaces no entry.
C3_MintedNameIsFresh ==
    [][(pc = "hoist" /\ cte_counter' # cte_counter) =>
        CteAliasName(cte_counter') \notin Keys(cte_graph)]_vars

\* C6: _handle_column_aliases on a selection in which an alias is also the
\* text of a column adds exactly one node, under the name minted by the
\* call, which holds the selection with no references and no back edges,
\* leaves every other entry alone and returns the wildcard selection over
\* that name.
C6_SelfReferenceIsHoisted ==
    [][(pc = "hoist" /\ SelfReferencing(sql_exp)) =>
        LET cte_name == CteAliasName(cte_counter + 1)
        IN /\ cte_counter' = cte_counter + 1
           /\ cte_name \notin Keys(cte_graph)
           /\ Keys(cte_graph') = Keys(cte_graph) \cup {cte_name}
           /\ \A k \in Keys(cte_graph) : cte_graph'.node[k] = cte_graph.node[k]
           /\ cte_graph'.node[cte_name].sql = sql_exp
           /\ cte_graph'.node[cte_name].references = {}
           /\ cte_graph'.node[cte_name].referenced_by = {}
           /\ result' = Outcome("returned", WildcardOver(cte_name))]_vars

====
